---- MODULE Spec2Model ----
(***************************************************************************)
(* A model of kawazaki0/ddd_tiny_example.                                  *)
(*                                                                         *)
(*   service_layer.py  Todo entity, TodoPolicy, InMemoryTodoRepository,    *)
(*                     TodoService.create_todo                             *)
(*   uow_repo.py       Entity, SpecificRepo, FileUoW over a JSON file      *)
(*                                                                         *)
(* Three specifications share the module's variables; each one moves its   *)
(* own variables and leaves the others at their initial value:             *)
(*   SpecTodo     Todo(title=...) applied to one title drawn in Init       *)
(*   SpecService  create_todo calls on one TodoService                     *)
(*   SpecUoW      enter / add / get / commit / rollback / exit on one file *)
(***************************************************************************)
EXTENDS Integers, Sequences, FiniteSets, TLC

VARIABLES
    \* ---- SpecTodo: one construction of the dataclass Todo
    ctorTitle,      \* the title handed to Todo(title=...)
    ctorResult,     \* NotRun, or what the construction gave
    \* ---- SpecService: TodoService over InMemoryTodoRepository
    todos,          \* InMemoryTodoRepository._todos: id -> Todo
    issued,         \* every value uuid4() has returned so far
    call,           \* the last create_todo call: its input and how it ended
    nCalls,         \* create_todo calls made so far
    allValid,       \* every title passed so far was a valid one
    nOk,            \* create_todo calls that have returned a DTO so far
    \* ---- SpecRepo: save called directly on an InMemoryTodoRepository
    saveLog,        \* the ids saved so far, the last entity saved, the call count
    \* ---- SpecHttp: POST /todos on the module's todo_service
    response,       \* the last request and the adapter's answer to it
    \* ---- SpecTasks: create_todo calls as cooperative tasks of one event loop
    tasks,          \* per task: where it is in create_todo, and its locals
    running,        \* the task the event loop is running, or NoTask
    \* ---- SpecUoW: one FileUoW at a time over one file path
    file,           \* the backing file: whether it exists, and its JSON document
    status,         \* "unopened", "active" (inside the with block) or "closed"
    session,        \* FileUoW.session: key -> entity object (a reference)
    heap,           \* the Entity objects alive: reference -> its fields
    callerE,         \* the caller's variable e: an entity object, or NoRef
    op,             \* the last operation and how it ended
    probe,          \* follows one add through commit, exit and the next enter
    uncommitted     \* ids given out by add with no commit since

todoVars == <<ctorTitle, ctorResult>>
serviceVars == <<todos, issued, call, nCalls, allValid, nOk>>
repoVars == <<saveLog>>
httpVars == <<response>>
taskVars == <<tasks, running>>
\* what the unit of work never touches (it shares uuid4's history)
otherVars == <<ctorTitle, ctorResult, todos, call, nCalls, allValid, nOk,
               saveLog, response, tasks, running>>
uowVars == <<file, status, session, heap, callerE, op, probe, uncommitted>>
vars == <<ctorTitle, ctorResult, todos, issued, call, nCalls, allValid, nOk,
          saveLog, response, tasks, running,
          file, status, session, heap, callerE, op, probe, uncommitted>>

-----------------------------------------------------------------------------
(* Bounds of the model *)

\* Titles of every length up to MaxShortLen are enumerated in full.
MaxShortLen == 3
\* Long titles have lengths within LongSlack of the 256 limit.
LongSlack == 1
\* uuid4 values available to a run.
NumUuids == 12
\* uuid4 returns one of the UuidFan least values it has not returned yet.
UuidFan == 1
\* create_todo calls in a run.
MaxCalls == 11
\* repo.add calls in a run of the unit of work.
MaxAdds == 3
\* save calls made directly on a repository, and the ids they use.
MaxSaves == 4
NumSaveIds == 3
\* create_todo tasks on one event loop.
NumTasks == 2

-----------------------------------------------------------------------------
(* Program constants *)

\* TodoPolicy.MAX_TODOS_PER_USER
MAX_TODOS_PER_USER == 10
\* the title length limit of Todo.__post_init__
MaxTitleLen == 256

-----------------------------------------------------------------------------
(* Strings are sequences of characters. *)

Whitespace == {" ", "\t"}
Chars == Whitespace \cup {"x"}

Fill(c, n) == [i \in 1..n |-> c]

\* str.strip(): the string without its leading and trailing whitespace.
strip(s) ==
    IF \A i \in 1..Len(s) : s[i] \in Whitespace THEN <<>>
    ELSE LET lo == CHOOSE i \in 1..Len(s) :
                     s[i] \notin Whitespace /\ \A j \in 1..(i - 1) : s[j] \in Whitespace
             hi == CHOOSE i \in 1..Len(s) :
                     s[i] \notin Whitespace /\ \A j \in (i + 1)..Len(s) : s[j] \in Whitespace
         IN  SubSeq(s, lo, hi)

-----------------------------------------------------------------------------
(* Domain layer *)

NoExc == [type |-> "none", msg |-> ""]
Exc(type, msg) == [type |-> type, msg |-> msg]
NoTodo == [title |-> <<>>, id |-> 0]

\* post_init with the length test off by one (>= for >).
post_init_ge(title) ==
    IF title = <<>> \/ Len(strip(title)) = 0
    THEN Exc("InvalidTodoException", "Title cannot be empty")
    ELSE IF Len(title) >= MaxTitleLen
    THEN Exc("InvalidTodoException", "Title cannot exceed 256 characters")
    ELSE NoExc

\* Todo.__post_init__: the exception it raises, or NoExc.
post_init(title) ==
    IF title = <<>> \/ Len(strip(title)) = 0
    THEN Exc("InvalidTodoException", "Title cannot be empty")
    ELSE IF Len(title) > MaxTitleLen
    THEN Exc("InvalidTodoException", "Title cannot exceed 256 characters")
    ELSE NoExc

\* Todo keeping the trimmed title instead of the title as given.
Todo_trimmed(title, id) ==
    LET e == post_init(title)
    IN  IF e = NoExc
        THEN [exc |-> NoExc, todo |-> [title |-> strip(title), id |-> id]]
        ELSE [exc |-> e, todo |-> NoTodo]

\* Todo(title=title): the dataclass __init__ stores the fields (id from the
\* default factory uuid4), then runs __post_init__; a raise leaves no instance.
Todo(title, id) ==
    LET e == post_init(title)
    IN  IF e = NoExc
        THEN [exc |-> NoExc, todo |-> [title |-> title, id |-> id]]
        ELSE [exc |-> e, todo |-> NoTodo]

\* enforce_limit with the threshold test off by one (> for >=).
enforce_limit_gt(current_todo_count) ==
    IF current_todo_count > MAX_TODOS_PER_USER
    THEN Exc("TodoLimitReachedException", "Cannot create more todos, limit reached")
    ELSE NoExc

\* TodoPolicy.enforce_limit: the exception it raises, or NoExc.
enforce_limit(current_todo_count) ==
    IF current_todo_count >= MAX_TODOS_PER_USER
    THEN Exc("TodoLimitReachedException", "Cannot create more todos, limit reached")
    ELSE NoExc

-----------------------------------------------------------------------------
(* Infrastructure layer: InMemoryTodoRepository *)

\* save that keeps the entity already held under the id (insert only).
save_insert_only(held, todo) ==
    [k \in DOMAIN held \cup {todo.id} |-> IF k \in DOMAIN held THEN held[k] ELSE todo]

\* save: self._todos[todo.id] = todo
save(held, todo) ==
    [k \in DOMAIN held \cup {todo.id} |-> IF k = todo.id THEN todo ELSE held[k]]

\* count_all: len(self._todos)
count_all(held) == Cardinality(DOMAIN held)

-----------------------------------------------------------------------------
(* uuid4 *)

Uuids == 1..NumUuids

\* The values a uuid4() call may return: ones never returned before.
\* Identifiers are opaque, so the model draws among the least unused ones.
uuid4(used) ==
    {i \in Uuids \ used : Cardinality({j \in Uuids \ used : j < i}) < UuidFan}

-----------------------------------------------------------------------------
(* Application layer: TodoService.create_todo *)

NoDTO == [id |-> 0, title |-> <<>>]

\* create_todo constructing the entity before it evaluates the policy.
create_todo_construct_first(title, id, held) ==
    LET t == Todo(title, id)
        lim == enforce_limit(count_all(held))
    IN  IF t.exc.type = "InvalidTodoException"
        THEN [exc |-> Exc("ValidationError", t.exc.msg), dto |-> NoDTO,
              held |-> held, drew |-> TRUE]
        ELSE IF lim.type = "TodoLimitReachedException"
        THEN [exc |-> Exc("BusinessRuleViolation", lim.msg), dto |-> NoDTO,
              held |-> held, drew |-> TRUE]
        ELSE [exc |-> NoExc, dto |-> [id |-> t.todo.id, title |-> t.todo.title],
              held |-> save(held, t.todo), drew |-> TRUE]

\* create_todo without the except clause around the construction.
create_todo_uncaught(title, id, held) ==
    LET lim == enforce_limit(count_all(held))
        t == Todo(title, id)
    IN  IF lim.type = "TodoLimitReachedException"
        THEN [exc |-> Exc("BusinessRuleViolation", lim.msg), dto |-> NoDTO,
              held |-> held, drew |-> FALSE]
        ELSE IF t.exc # NoExc
        THEN [exc |-> t.exc, dto |-> NoDTO, held |-> held, drew |-> TRUE]
        ELSE [exc |-> NoExc, dto |-> [id |-> t.todo.id, title |-> t.todo.title],
              held |-> save(held, t.todo), drew |-> TRUE]

\* create_todo(title) on a repository holding `held`, where uuid4 gives `id`
\* if the Todo is constructed: how the call ends, and the repository after.
create_todo(title, id, held) ==
    LET count == count_all(held)
        lim == enforce_limit(count)
    IN  IF lim.type = "TodoLimitReachedException"
        THEN [exc |-> Exc("BusinessRuleViolation", lim.msg), dto |-> NoDTO,
              held |-> held, drew |-> FALSE]
        ELSE IF lim # NoExc
        THEN [exc |-> lim, dto |-> NoDTO, held |-> held, drew |-> FALSE]
        ELSE LET t == Todo(title, id)
             IN  IF t.exc.type = "InvalidTodoException"
                 THEN [exc |-> Exc("ValidationError", t.exc.msg), dto |-> NoDTO,
                       held |-> held, drew |-> TRUE]
                 ELSE IF t.exc # NoExc
                 THEN [exc |-> t.exc, dto |-> NoDTO, held |-> held, drew |-> TRUE]
                 ELSE LET saved == t.todo
                      IN  [exc |-> NoExc,
                           dto |-> [id |-> saved.id, title |-> saved.title],
                           held |-> save(held, t.todo), drew |-> TRUE]

-----------------------------------------------------------------------------
(* asyncio: where a coroutine hands control back to the event loop *)

\* A repository whose count_all waits on something (a database, a sleep).
count_all_suspends == TRUE

\* `await self.repository.count_all()`: the body is `return len(self._todos)`,
\* it awaits nothing, so the await returns without suspending the task.
count_all_yields == FALSE

\* `await self.repository.save(todo)`: the body assigns and returns, it
\* awaits nothing, so the await returns without suspending the task.
save_yields == FALSE

-----------------------------------------------------------------------------
(* External layer: POST /todos *)

\* The adapter's answer when only ValidationError is caught.
respond_validation_only(request, r) ==
    IF r.exc = NoExc
    THEN [request |-> request, status |-> 201,
          body |-> [id |-> r.dto.id, title |-> r.dto.title], detail |-> ""]
    ELSE IF r.exc.type = "ValidationError"
    THEN [request |-> request, status |-> 400, body |-> NoDTO, detail |-> r.exc.msg]
    ELSE [request |-> request, status |-> 500, body |-> NoDTO, detail |-> ""]

\* The endpoint's answer to `request`, r being how todo_service.create_todo
\* ended: 201 (the decorator's status_code) with {id, title}; HTTPException
\* 400 with str(e) for the two application errors; anything else is not
\* caught and leaves as a server fault.
respond(request, r) ==
    IF r.exc = NoExc
    THEN [request |-> request, status |-> 201,
          body |-> [id |-> r.dto.id, title |-> r.dto.title], detail |-> ""]
    ELSE IF r.exc.type = "ValidationError"
    THEN [request |-> request, status |-> 400, body |-> NoDTO, detail |-> r.exc.msg]
    ELSE IF r.exc.type = "BusinessRuleViolation"
    THEN [request |-> request, status |-> 400, body |-> NoDTO, detail |-> r.exc.msg]
    ELSE [request |-> request, status |-> 500, body |-> NoDTO, detail |-> ""]

\* request["title"] on a payload without the key: KeyError, before the
\* service is called.
NotCalled(held) == [exc |-> Exc("KeyError", "title"), dto |-> NoDTO,
                    held |-> held, drew |-> FALSE]

\* async def create_todo(request: dict), the endpoint
post_todos(request, id, held) ==
    IF request.has_title
    THEN create_todo(request.title, id, held)
    ELSE NotCalled(held)

-----------------------------------------------------------------------------
(* uow_repo.py: Entity, SpecificRepo, FileUoW *)

NoId == 0        \* Entity.id is None
NoRef == 0       \* the caller holds no entity
Attrs == {"a", "b"}
Refs == 1..(MaxAdds + 1)

\* class Entity(BaseModel): attr1: str; id: Optional[str] = None
Entity(attr1, id) == [attr1 |-> attr1, id |-> id]

\* Entity.model_dump(): the fields as a dict
model_dump(e) == [attr1 |-> e.attr1, id |-> e.id]

Range(f) == {f[k] : k \in DOMAIN f}

\* Objects are freed once neither the session nor the caller refers to them.
Collect(hp, sess, keep) == [r \in DOMAIN hp \cap (Range(sess) \cup {keep}) |-> hp[r]]

\* A reference for a new object.
NewRef(hp) == CHOOSE r \in Refs \ DOMAIN hp : \A q \in Refs \ DOMAIN hp : r <= q

\* add giving an id only to an entity that has none yet.
add_keep_id(sess, hp, r, new_id) ==
    LET id == IF hp[r].id # NoId THEN hp[r].id ELSE new_id
    IN  [session |-> [k \in DOMAIN sess \cup {id} |-> IF k = id THEN r ELSE sess[k]],
         heap |-> [hp EXCEPT ![r] = [@ EXCEPT !.id = id]],
         ret |-> id]

\* SpecificRepo.add(entity), entity being the object r and uuid4 giving new_id:
\* entity.id = new_id; self.session[new_id] = entity; return new_id
add(sess, hp, r, new_id) ==
    [session |-> [k \in DOMAIN sess \cup {new_id} |->
                    IF k = new_id THEN r ELSE sess[k]],
     heap |-> [hp EXCEPT ![r] = [@ EXCEPT !.id = new_id]],
     ret |-> new_id]

\* SpecificRepo.get(entity_id): self.session[entity_id], or KeyError
get(sess, entity_id) ==
    IF entity_id \in DOMAIN sess
    THEN [exc |-> "none", ret |-> sess[entity_id]]
    ELSE [exc |-> "KeyError", ret |-> NoRef]

NoFile == [exists |-> FALSE, doc |-> <<>>]

\* The dict commit serialises: {e.id: e.model_dump() for e in session.values()}.
\* Two values of the session that are one object give one item.
commit_doc(sess, hp) ==
    [k \in {hp[r].id : r \in Range(sess)} |->
        model_dump(hp[CHOOSE r \in Range(sess) : hp[r].id = k])]

\* FileUoW.commit: the file after it, and the exception raised. Reading
\* self.session of an instance never entered raises before the file is opened.
commit(f, sess, hp, entered) ==
    IF ~entered
    THEN [file |-> f, exc |-> "AttributeError"]
    ELSE [file |-> [exists |-> TRUE, doc |-> commit_doc(sess, hp)], exc |-> "none"]

Rank(k, S) == Cardinality({j \in S : j < k}) + 1

\* _load that finds no file whatever the path holds.
load_missing(f, sess, hp, entered, keep) ==
    [session |-> sess, heap |-> hp, file |-> f, exc |-> "none"]

\* FileUoW._load: a missing file is passed over (the session stays as it is);
\* otherwise the session is cleared and refilled with one new Entity per item
\* of the document, built from the item's value. `keep` is the object the
\* caller holds, which outlives the clear. The file is opened for reading
\* and comes back as it was.
load(f, sess, hp, entered, keep) ==
    IF ~f.exists
    THEN [session |-> sess, heap |-> hp, file |-> f, exc |-> "none"]
    ELSE IF ~entered
    THEN [session |-> sess, heap |-> hp, file |-> f, exc |-> "AttributeError"]
    ELSE LET keys == DOMAIN f.doc
             free == Refs \ {keep}
             RefOf(k) == CHOOSE r \in free : Rank(r, free) = Rank(k, keys)
             KeyOf(r) == CHOOSE k \in keys : RefOf(k) = r
             fresh == {RefOf(k) : k \in keys}
             kept == {keep} \cap DOMAIN hp
         IN  [session |-> [k \in keys |-> RefOf(k)],
              heap |-> [r \in fresh \cup kept |->
                          IF r \in fresh
                          THEN Entity(f.doc[KeyOf(r)].attr1, f.doc[KeyOf(r)].id)
                          ELSE hp[r]],
              file |-> f,
              exc |-> "none"]

\* __enter__ loading into the session left by the scope before.
enter_reuse(f, sess, hp, keep) ==
    load(f, sess, hp, TRUE, keep)

\* FileUoW.__enter__: self.session = {}; self._load(); repo bound to it
enter(f, sess, hp, keep) ==
    load(f, <<>>, Collect(hp, <<>>, keep), TRUE, keep)

\* FileUoW.rollback: self._load()
rollback(f, sess, hp, entered, keep) == load(f, sess, hp, entered, keep)

\* __exit__ committing the session instead of rolling it back.
exit_commits(f, sess, hp, keep) ==
    [session |-> sess, heap |-> hp, file |-> commit(f, sess, hp, TRUE).file,
     exc |-> "none"]

\* FileUoW.__exit__: self.rollback()
exit(f, sess, hp, keep) == rollback(f, sess, hp, TRUE, keep)

-----------------------------------------------------------------------------
(* The state before anything has run *)

NotRun == [exc |-> Exc("notrun", ""), todo |-> NoTodo]

NoCall == [title |-> <<>>, exc |-> NoExc, dto |-> NoDTO, count |-> 0]

ServiceIdle ==
    /\ todos = <<>>
    /\ issued = {}
    /\ call = NoCall
    /\ nCalls = 0
    /\ allValid = TRUE
    /\ nOk = 0

TodoIdle ==
    /\ ctorTitle = <<>>
    /\ ctorResult = NotRun

NoSave == [ids |-> {}, last |-> NoTodo, n |-> 0]
NoRequest == [has_title |-> FALSE, title |-> <<>>]
NoResponse == [request |-> NoRequest, status |-> 0, body |-> NoDTO, detail |-> ""]
NoTask == 0
Tasks == 1..NumTasks
IdleTask == [pc |-> "idle", title |-> <<>>, count |-> 0, todo |-> NoTodo]

RepoIdle == saveLog = NoSave
HttpIdle == response = NoResponse
TasksIdle ==
    /\ tasks = [t \in Tasks |-> IdleTask]
    /\ running = NoTask

NoOp == [name |-> "none", id |-> NoId, attr1 |-> "", exc |-> "none"]
NoProbe == [phase |-> "none", id |-> NoId, attr1 |-> ""]

UoWIdle ==
    /\ file = NoFile
    /\ status = "unopened"
    /\ session = <<>>
    /\ heap = <<>>
    /\ callerE = NoRef
    /\ op = NoOp
    /\ probe = NoProbe
    /\ uncommitted = {}

-----------------------------------------------------------------------------
(* SpecTodo: Todo(title=...) on one title *)

ShortTitles == UNION {[1..n -> Chars] : n \in 0..MaxShortLen}
LongLens == (MaxTitleLen - LongSlack)..(MaxTitleLen + LongSlack)
LongTitles ==
    UNION {{Fill(c, n) : c \in Chars}
           \cup {Fill(" ", n - 1) \o <<"x">>, <<"x">> \o Fill("\t", n - 1),
                 <<" ">> \o Fill("x", n - 2) \o <<" ">>} : n \in LongLens}
TitleInputs == ShortTitles \cup LongTitles

\* The titles create_todo is called with: a valid one (untrimmed) and one of
\* each invalid kind.
ServiceTitles ==
    {<<" ", "x", " ">>, <<>>, <<" ", "\t">>, Fill("x", MaxTitleLen + 1)}

InitTodo ==
    /\ ctorTitle \in TitleInputs
    /\ ctorResult = NotRun
    /\ ServiceIdle
    /\ RepoIdle
    /\ HttpIdle
    /\ TasksIdle
    /\ UoWIdle

Construct ==
    /\ ctorResult = NotRun
    /\ \E id \in uuid4({}) : ctorResult' = Todo(ctorTitle, id)
    /\ UNCHANGED <<ctorTitle, serviceVars, repoVars, httpVars, taskVars, uowVars>>

NextTodo == Construct

SpecTodo == InitTodo /\ [][NextTodo]_vars

-----------------------------------------------------------------------------
(* SpecService: create_todo calls on one service, one call at a time *)

InitService ==
    /\ ServiceIdle
    /\ TodoIdle
    /\ RepoIdle
    /\ HttpIdle
    /\ TasksIdle
    /\ UoWIdle

CreateTodo ==
    /\ nCalls < MaxCalls
    /\ \E title \in ServiceTitles :
         \E id \in (IF enforce_limit(count_all(todos)) = NoExc
                    THEN uuid4(issued) ELSE {0}) :
            \E r \in {create_todo(title, id, todos)} :
                /\ todos' = r.held
                /\ issued' = IF r.drew THEN issued \cup {id} ELSE issued
                /\ call' = [title |-> title, exc |-> r.exc, dto |-> r.dto,
                            count |-> count_all(todos)]
                /\ nCalls' = nCalls + 1
                /\ allValid' = (allValid /\ post_init(title) = NoExc)
                /\ nOk' = IF r.exc = NoExc THEN nOk + 1 ELSE nOk
    /\ UNCHANGED <<todoVars, repoVars, httpVars, taskVars, uowVars>>

NextService == CreateTodo

SpecService == InitService /\ [][NextService]_vars

-----------------------------------------------------------------------------
(* SpecRepo: save and count_all called directly on one repository *)

SaveIds == 1..NumSaveIds
\* Entities handed to save: valid todos, several with the same id.
SaveTitles == {<<"x">>, <<" ", "x", " ">>}

InitRepo ==
    /\ ServiceIdle
    /\ TodoIdle
    /\ RepoIdle
    /\ HttpIdle
    /\ TasksIdle
    /\ UoWIdle

\* await repository.save(Todo(title=title, id=id))
Save ==
    /\ saveLog.n < MaxSaves
    /\ \E title \in SaveTitles, id \in SaveIds :
         \E t \in {Todo(title, id).todo} :
            /\ todos' = save(todos, t)
            /\ saveLog' = [ids |-> saveLog.ids \cup {t.id}, last |-> t,
                           n |-> saveLog.n + 1]
    /\ UNCHANGED <<todoVars, issued, call, nCalls, allValid, nOk,
                   httpVars, taskVars, uowVars>>

NextRepo == Save

SpecRepo == InitRepo /\ [][NextRepo]_vars

-----------------------------------------------------------------------------
(* SpecHttp: POST /todos requests on the module's one todo_service *)

Requests ==
    {[has_title |-> TRUE, title |-> t] : t \in ServiceTitles}
    \cup {[has_title |-> FALSE, title |-> <<>>]}

InitHttp ==
    /\ ServiceIdle
    /\ TodoIdle
    /\ RepoIdle
    /\ HttpIdle
    /\ TasksIdle
    /\ UoWIdle

\* one request, handled to its response
Post ==
    /\ nCalls < MaxCalls
    /\ \E request \in Requests :
         \E id \in (IF enforce_limit(count_all(todos)) = NoExc /\ request.has_title
                    THEN uuid4(issued) ELSE {0}) :
            \E r \in {post_todos(request, id, todos)} :
                /\ response' = respond(request, r)
                /\ todos' = r.held
                /\ issued' = IF r.drew THEN issued \cup {id} ELSE issued
                /\ call' = IF request.has_title
                           THEN [title |-> request.title, exc |-> r.exc,
                                 dto |-> r.dto, count |-> count_all(todos)]
                           ELSE call
                /\ nCalls' = IF request.has_title THEN nCalls + 1 ELSE nCalls
                /\ allValid' = IF request.has_title
                               THEN (allValid /\ post_init(request.title) = NoExc)
                               ELSE allValid
                /\ nOk' = IF r.exc = NoExc THEN nOk + 1 ELSE nOk
    /\ UNCHANGED <<todoVars, repoVars, taskVars, uowVars>>

NextHttp == Post

SpecHttp == InitHttp /\ [][NextHttp]_vars

-----------------------------------------------------------------------------
(* SpecTasks: create_todo coroutines as tasks of one event loop.  `running`
   is the task the loop is executing; a task keeps the loop until an await
   of its own suspends it or it finishes, and the loop then picks any task
   that can go on. *)

TaskTitles == {<<"x">>, <<>>}

InitTasks ==
    /\ ServiceIdle
    /\ TodoIdle
    /\ RepoIdle
    /\ HttpIdle
    /\ TasksIdle
    /\ UoWIdle

\* the loop may run t now: t has it, or nobody has
CanRun(t) == running \in {NoTask, t}

\* a task is created for create_todo(title)
Begin(t) ==
    /\ nCalls < MaxCalls
    /\ running = NoTask
    /\ tasks[t].pc = "idle"
    /\ \E title \in TaskTitles :
         tasks' = [tasks EXCEPT ![t] = [IdleTask EXCEPT !.pc = "ready", !.title = title]]
    /\ nCalls' = nCalls + 1
    /\ UNCHANGED <<todoVars, todos, issued, call, allValid, nOk, repoVars, httpVars,
                   running, uowVars>>

\* count = await self.repository.count_all()
AwaitCount(t) ==
    /\ CanRun(t)
    /\ tasks[t].pc = "ready"
    /\ tasks' = [tasks EXCEPT ![t].pc = "counted", ![t].count = count_all(todos)]
    /\ running' = IF count_all_yields THEN NoTask ELSE t
    /\ UNCHANGED <<todoVars, serviceVars, repoVars, httpVars, uowVars>>

\* enforce_limit(count) and Todo(title=title), up to the next await
ConstructTodo(t) ==
    /\ CanRun(t)
    /\ tasks[t].pc = "counted"
    /\ \E lim \in {enforce_limit(tasks[t].count)} :
         IF lim # NoExc
         THEN /\ tasks' = [tasks EXCEPT ![t] = IdleTask]
              /\ running' = NoTask
              /\ UNCHANGED issued
         ELSE \E id \in uuid4(issued) :
                \E c \in {Todo(tasks[t].title, id)} :
                   /\ issued' = issued \cup {id}
                   /\ IF c.exc # NoExc
                      THEN /\ tasks' = [tasks EXCEPT ![t] = IdleTask]
                           /\ running' = NoTask
                      ELSE /\ tasks' = [tasks EXCEPT ![t].pc = "constructed",
                                                     ![t].todo = c.todo]
                           /\ running' = t
    /\ UNCHANGED <<todoVars, todos, call, nCalls, allValid, nOk, repoVars, httpVars,
                   uowVars>>

\* saved = await self.repository.save(todo)
AwaitSave(t) ==
    /\ CanRun(t)
    /\ tasks[t].pc = "constructed"
    /\ todos' = save(todos, tasks[t].todo)
    /\ tasks' = [tasks EXCEPT ![t].pc = "saved"]
    /\ running' = IF save_yields THEN NoTask ELSE t
    /\ UNCHANGED <<todoVars, issued, call, nCalls, allValid, nOk, repoVars, httpVars,
                   uowVars>>

\* return TodoDTO(...): the task is done
Return(t) ==
    /\ CanRun(t)
    /\ tasks[t].pc = "saved"
    /\ tasks' = [tasks EXCEPT ![t] = IdleTask]
    /\ running' = NoTask
    /\ UNCHANGED <<todoVars, serviceVars, repoVars, httpVars, uowVars>>

NextTasks ==
    \E t \in Tasks :
        \/ Begin(t)
        \/ AwaitCount(t)
        \/ ConstructTodo(t)
        \/ AwaitSave(t)
        \/ Return(t)

SpecTasks == InitTasks /\ [][NextTasks]_vars

-----------------------------------------------------------------------------
(* SpecUoW: one caller using FileUoW instances on one path, one at a time *)

Did(name, id, attr1, exc) ==
    [name |-> name, id |-> id, attr1 |-> attr1, exc |-> exc]

InitUoW ==
    /\ UoWIdle
    /\ ServiceIdle
    /\ TodoIdle
    /\ RepoIdle
    /\ HttpIdle
    /\ TasksIdle

\* uow = FileUoW(path): a new instance, once the scope before has ended
New ==
    /\ status = "closed"
    /\ status' = "unopened"
    /\ session' = <<>>
    /\ heap' = Collect(heap, <<>>, callerE)
    /\ op' = Did("new", NoId, "", "none")
    /\ probe' = IF probe.phase = "exited" THEN probe ELSE NoProbe
    /\ UNCHANGED <<otherVars, file, callerE, uncommitted, issued>>

\* with uow: ... (entering an instance that is not inside its block)
Enter ==
    /\ status \in {"unopened", "closed"}
    /\ \E r \in {enter(file, session, heap, callerE)} :
         /\ session' = r.session
         /\ heap' = r.heap
         /\ file' = r.file
    /\ status' = "active"
    /\ op' = Did("enter", NoId, "", "none")
    /\ probe' = IF probe.phase = "exited"
                THEN [probe EXCEPT !.phase = "reopened"] ELSE NoProbe
    /\ UNCHANGED <<otherVars, callerE, uncommitted, issued>>

\* e = Entity(attr1=..., id=...); uow.repo.add(e)
AddNew ==
    /\ status # "unopened"
    /\ Cardinality(issued) < MaxAdds
    /\ \E attr1 \in Attrs, given \in {NoId} \cup issued, new_id \in uuid4(issued) :
         LET e == NewRef(Collect(heap, session, NoRef))
             hp == [r \in DOMAIN Collect(heap, session, NoRef) \cup {e} |->
                      IF r = e THEN Entity(attr1, given) ELSE heap[r]]
         IN  \E r \in {add(session, hp, e, new_id)} :
                /\ session' = r.session
                /\ heap' = r.heap
                /\ callerE' = e
                /\ issued' = issued \cup {new_id}
                /\ op' = Did("add", r.ret, attr1, "none")
                /\ probe' = [phase |-> "added", id |-> r.ret, attr1 |-> attr1]
                /\ uncommitted' = uncommitted \cup {r.ret}
    /\ UNCHANGED <<otherVars, file, status>>

\* uow.repo.add(e) with the object the caller already holds
AddHeld ==
    /\ status # "unopened"
    /\ callerE # NoRef
    /\ Cardinality(issued) < MaxAdds
    /\ \E new_id \in uuid4(issued) :
         \E r \in {add(session, heap, callerE, new_id)} :
            /\ session' = r.session
            /\ heap' = r.heap
            /\ issued' = issued \cup {new_id}
            /\ op' = Did("add", r.ret, heap[callerE].attr1, "none")
            /\ probe' = [phase |-> "added", id |-> r.ret, attr1 |-> heap[callerE].attr1]
            /\ uncommitted' = uncommitted \cup {r.ret}
    /\ UNCHANGED <<otherVars, file, status, callerE>>

\* e = uow.repo.get(entity_id)
Get ==
    /\ status # "unopened"
    /\ \E entity_id \in issued \cup uuid4(issued) :
         \E r \in {get(session, entity_id)} :
            /\ callerE' = IF r.exc = "none" THEN r.ret ELSE callerE
            /\ heap' = Collect(heap, session, callerE')
            /\ op' = Did("get", entity_id, "", r.exc)
    /\ probe' = NoProbe
    /\ UNCHANGED <<otherVars, file, status, session, uncommitted, issued>>

\* uow.commit()
Commit ==
    /\ \E r \in {commit(file, session, heap, status # "unopened")} :
         /\ file' = r.file
         /\ op' = Did("commit", NoId, "", r.exc)
         /\ probe' = IF probe.phase = "added" /\ r.exc = "none" /\ op.name = "add"
                     THEN [probe EXCEPT !.phase = "committed"] ELSE NoProbe
         /\ uncommitted' = IF r.exc = "none" THEN {} ELSE uncommitted
    /\ UNCHANGED <<otherVars, status, session, heap, callerE, issued>>

\* uow.rollback()
Rollback ==
    /\ \E r \in {rollback(file, session, heap, status # "unopened", callerE)} :
         /\ session' = r.session
         /\ heap' = r.heap
         /\ file' = r.file
         /\ op' = Did("rollback", NoId, "", r.exc)
    /\ probe' = NoProbe
    /\ UNCHANGED <<otherVars, status, callerE, uncommitted, issued>>

\* leaving the with block, however it is left: __exit__
Exit ==
    /\ status = "active"
    /\ \E r \in {exit(file, session, heap, callerE)} :
         /\ session' = r.session
         /\ heap' = r.heap
         /\ file' = r.file
    /\ status' = "closed"
    /\ op' = Did("exit", NoId, "", "none")
    /\ probe' = IF probe.phase = "committed"
                THEN [probe EXCEPT !.phase = "exited"] ELSE NoProbe
    /\ UNCHANGED <<otherVars, callerE, uncommitted, issued>>

NextUoW ==
    \/ New
    \/ Enter
    \/ AddNew
    \/ AddHeld
    \/ Get
    \/ Commit
    \/ Rollback
    \/ Exit

SpecUoW == InitUoW /\ [][NextUoW]_vars

-----------------------------------------------------------------------------
(* Properties of the todo path *)

\* A title as the description of the entity has it: at most 256 characters,
\* at least one of them not whitespace.
ValidTitle(t) ==
    /\ Len(t) <= 256
    /\ \E i \in 1..Len(t) : t[i] \notin Whitespace

Returned == call.exc = NoExc /\ nCalls >= 1

\* C1: from an empty repository, while every title passed is valid, each of
\* the first 10 create_todo calls succeeds (so after k <= 10 calls k todos are
\* held), and every call made with 10 todos held fails with
\* BusinessRuleViolation.
C1_FirstTenThenLimit ==
    (allValid /\ nCalls >= 1) =>
        /\ nCalls <= 10 => (call.exc = NoExc /\ count_all(todos) = nCalls)
        /\ call.count >= 10 => call.exc.type = "BusinessRuleViolation"

C1_Witness ==
    /\ allValid
    /\ nCalls = 11
    /\ count_all(todos) = 10
    /\ call.exc.type = "BusinessRuleViolation"

\* C2: a create_todo call made with 10 or more todos held and an invalid
\* title fails with BusinessRuleViolation, never with ValidationError.
C2_LimitBeforeValidation ==
    (nCalls >= 1 /\ call.count >= 10 /\ ~ValidTitle(call.title)) =>
        call.exc.type = "BusinessRuleViolation"

C2_Witness ==
    /\ call.count >= 10
    /\ ~ValidTitle(call.title)
    /\ Len(call.title) > 256
    /\ call.exc.type = "BusinessRuleViolation"

\* C3: Todo construction succeeds exactly for the valid titles; on success
\* the stored title is the input unchanged, and otherwise it fails with
\* InvalidTodoException and leaves no instance.
C3_ConstructionIffValid ==
    ctorResult # NotRun =>
        /\ ctorResult.exc = NoExc <=> ValidTitle(ctorTitle)
        /\ ctorResult.exc = NoExc =>
              (ctorResult.todo # NoTodo /\ ctorResult.todo.title = ctorTitle)
        /\ ctorResult.exc # NoExc =>
              (ctorResult.exc.type = "InvalidTodoException" /\ ctorResult.todo = NoTodo)

C3_Witness ==
    /\ ctorResult.exc = NoExc
    /\ Len(ctorTitle) = 256
    /\ ctorTitle[1] \in Whitespace
    /\ ctorResult.todo.title = ctorTitle

\* C4: every create_todo call ends in exactly one of BusinessRuleViolation
\* (exactly when the count was >= 10), ValidationError (exactly when the
\* count was < 10 and the title invalid) or a returned DTO (exactly when the
\* count was < 10 and the title valid); no domain exception reaches the
\* caller.
C4_ThreeOutcomes ==
    nCalls >= 1 =>
        /\ call.exc.type \in {"none", "BusinessRuleViolation", "ValidationError"}
        /\ call.exc.type = "BusinessRuleViolation" <=> call.count >= 10
        /\ call.exc.type = "ValidationError" <=>
              (call.count < 10 /\ ~ValidTitle(call.title))
        /\ (call.exc = NoExc /\ call.dto # NoDTO) <=>
              (call.count < 10 /\ ValidTitle(call.title))
        /\ call.exc # NoExc => call.dto = NoDTO

C4_Witness ==
    /\ nCalls >= 1
    /\ call.exc.type = "ValidationError"
    /\ call.count = 9
    /\ call.title # <<>>

\* C5: a step of create_todo that succeeds adds exactly one entity, under an
\* id not held before that is the DTO's id, with the input title, and keeps
\* every other entity; a step that fails leaves the repository as it was.
C5_Frame ==
    [][nCalls' = nCalls + 1 =>
        IF call'.exc = NoExc
        THEN /\ call'.dto.id \notin DOMAIN todos
             /\ DOMAIN todos' = DOMAIN todos \cup {call'.dto.id}
             /\ todos'[call'.dto.id].id = call'.dto.id
             /\ todos'[call'.dto.id].title = call'.title
             /\ call'.dto.title = call'.title
             /\ \A k \in DOMAIN todos : todos'[k] = todos[k]
             /\ count_all(todos') = count_all(todos) + 1
        ELSE /\ call'.exc.type \in {"ValidationError", "BusinessRuleViolation"}
             /\ todos' = todos
             /\ count_all(todos') = count_all(todos)]_vars

C5_Witness ==
    /\ Returned
    /\ count_all(todos) = 3
    /\ call.dto.id \in DOMAIN todos
    /\ nCalls > 3

-----------------------------------------------------------------------------
(* Properties of the unit of work *)

\* The session holds exactly what the file holds: the same keys, each entity
\* with the fields of the file's item; nothing when there is no file.
SessionIsFile ==
    /\ DOMAIN session = DOMAIN file.doc
    /\ \A k \in DOMAIN session : model_dump(heap[session[k]]) = file.doc[k]

\* The model's own bookkeeping: the heap holds the objects the session or the
\* caller refers to, and two different objects of the session never carry
\* the same id (so commit_doc never has to choose between two objects).
HeapWellFormed ==
    /\ DOMAIN heap = (Range(session) \cup {callerE}) \ {NoRef}
    /\ \A r, q \in Range(session) : heap[r].id = heap[q].id => r = q
    /\ file.exists => \A k \in DOMAIN file.doc : file.doc[k].id = k

\* C6: add(entity) giving id, then commit(), then scope exit, then entering a
\* unit of work on the same path (the same instance or a new one): get(id)
\* returns an entity whose attr1 is the added entity's attr1.
C6_RoundTrip ==
    probe.phase = "reopened" =>
        /\ get(session, probe.id).exc = "none"
        /\ heap[get(session, probe.id).ret].attr1 = probe.attr1

C6_Witness ==
    /\ probe.phase = "reopened"
    /\ op.name = "enter"
    /\ Cardinality(DOMAIN session) >= 2
    /\ probe.id \in DOMAIN session
    /\ heap[session[probe.id]].attr1 = "b"

\* C7: right after a unit of work is entered, its session holds no id that
\* add gave out with no commit afterwards, whether or not the file exists.
C7_UncommittedGoneOnReopen ==
    op.name = "enter" => DOMAIN session \cap uncommitted = {}

C7_Witness ==
    /\ op.name = "enter"
    /\ uncommitted # {}
    /\ file.exists
    /\ session # <<>>

\* C8: right after the scope exit of an active unit of work, the session
\* holds exactly the entities of the backing file, and nothing when there is
\* no backing file.
C8_ExitRestoresFile ==
    op.name = "exit" => SessionIsFile

\* C9: every key of the session maps to an entity whose id is set and equal
\* to the key.
C9_SessionIdsAreKeys ==
    \A k \in DOMAIN session :
        heap[session[k]].id # NoId /\ heap[session[k]].id = k

\* C10: right after a commit on an active unit of work, the file exists and
\* holds one item per session entry, under the same key and with the same
\* attr1, and no other item.
C10_CommitMirrorsSession ==
    (op.name = "commit" /\ op.exc = "none" /\ status = "active") =>
        /\ file.exists
        /\ DOMAIN file.doc = DOMAIN session
        /\ \A k \in DOMAIN session : file.doc[k].attr1 = heap[session[k]].attr1

\* What the session shows of its entities: key -> attr1.
View(sess, hp) == [k \in DOMAIN sess |-> hp[sess[k]].attr1]

\* C11: a step that changes the backing file (its existence or its document)
\* is a commit; enter, add, get, rollback, exit and a new instance leave it.
C11_OnlyCommitWrites ==
    [][file' # file => (op'.name = "commit" /\ op'.exc = "none")]_vars

C11_Witness ==
    /\ op.name = "exit"
    /\ file.exists
    /\ file.doc # <<>>
    /\ uncommitted # {}
    /\ DOMAIN file.doc \cap uncommitted = {}

\* C12: a commit on a unit of work that is unopened or closed leaves the
\* backing file's existence and document as they were.
C12_CommitOnlyWhileActive ==
    [][(op'.name = "commit" /\ status \in {"unopened", "closed"}) => file' = file]_vars

\* C13: right after any enter the session is exactly the file's document, and
\* empty when there is no file, whatever earlier scopes left in memory.
C13_EnterLoadsFile ==
    op.name = "enter" => SessionIsFile

C13_Witness ==
    /\ op.name = "enter"
    /\ ~file.exists
    /\ session = <<>>
    /\ uncommitted # {}
    /\ callerE # NoRef

\* C14: a step of add returns an id that was no key of the session, sets the
\* entity's id to it, stores the entity under it and keeps every other key on
\* the object it was on, with its attr1: the session grows by exactly one.
C14_AddFrame ==
    [][(op'.name = "add" /\ issued' # issued) =>
        /\ op'.id \notin DOMAIN session
        /\ op'.id \notin issued
        /\ DOMAIN session' = DOMAIN session \cup {op'.id}
        /\ heap'[session'[op'.id]].id = op'.id
        /\ heap'[session'[op'.id]].attr1 = op'.attr1
        /\ \A k \in DOMAIN session :
              /\ session'[k] = session[k]
              /\ heap'[session'[k]].attr1 = heap[session[k]].attr1
        /\ Cardinality(DOMAIN session') = Cardinality(DOMAIN session) + 1]_vars

C14_Witness ==
    /\ op.name = "add"
    /\ Cardinality(DOMAIN session) = 3
    /\ \E k \in DOMAIN session : k # op.id /\ session[k] = session[op.id]

\* C19: in an active unit of work, a rollback that directly follows a commit
\* leaves the session with the keys it had, each with the same attr1.
C19_CommitThenRollback ==
    [][(op.name = "commit" /\ op.exc = "none" /\ status = "active"
        /\ op'.name = "rollback") =>
            View(session', heap') = View(session, heap)]_vars

-----------------------------------------------------------------------------
(* Properties of the repository, the adapter and the tasks *)

\* C15: a step of save puts the entity under its id in place of any entity
\* held there and keeps every other entity; when the id was held the count
\* stays; saving the entity just saved again changes nothing; and the count
\* is the number of distinct ids saved so far.
C15_SaveIsUpsert ==
    [][saveLog'.n = saveLog.n + 1 =>
        /\ saveLog'.last.id \in DOMAIN todos'
        /\ todos'[saveLog'.last.id] = saveLog'.last
        /\ \A k \in DOMAIN todos \ {saveLog'.last.id} :
              k \in DOMAIN todos' /\ todos'[k] = todos[k]
        /\ saveLog'.last.id \in DOMAIN todos =>
              count_all(todos') = count_all(todos)
        /\ (saveLog.n >= 1 /\ saveLog'.last = saveLog.last) => todos' = todos
        /\ count_all(todos') = Cardinality(saveLog'.ids)]_vars

C15_Witness ==
    /\ saveLog.n = 3
    /\ count_all(todos) = 1
    /\ todos[saveLog.last.id] = saveLog.last
    /\ saveLog.last.title = <<" ", "x", " ">>

\* C17: whatever titles the create_todo calls were given, the repository
\* holds at most 10 todos, as many as calls have succeeded.
C17_CountIsSuccesses ==
    /\ count_all(todos) <= 10
    /\ count_all(todos) = nOk

C17_Witness ==
    /\ nOk = 10
    /\ count_all(todos) = 10
    /\ ~allValid
    /\ nCalls = 11

\* C16: to a request whose payload has a title the adapter answers 201 with
\* the created todo's id and title exactly when the service call returned,
\* and 400 with the error's message as detail exactly when the service
\* raised ValidationError or BusinessRuleViolation.
C16_AdapterStatus ==
    response.request.has_title =>
        /\ response.status = 201 <=> call.exc = NoExc
        /\ call.exc = NoExc =>
              response.body = [id |-> call.dto.id, title |-> call.dto.title]
        /\ response.status = 400 <=>
              call.exc.type \in {"ValidationError", "BusinessRuleViolation"}
        /\ response.status = 400 => response.detail = call.exc.msg

C16_Witness ==
    /\ response.request.has_title
    /\ response.status = 400
    /\ call.exc.type = "BusinessRuleViolation"
    /\ response.detail = "Cannot create more todos, limit reached"

\* C18: with concurrent create_todo tasks on one event loop, count_all and
\* save never hand control back (a task that has passed either await still
\* holds the loop), so from the count a task read until its save no other
\* task runs (the count it read is still the repository's), and under every
\* schedule the repository never holds more than 10 todos.
C18_NoInterleaving ==
    /\ \A t \in Tasks :
         /\ tasks[t].pc \in {"counted", "constructed", "saved"} => running = t
         /\ tasks[t].pc \in {"counted", "constructed"} =>
               tasks[t].count = count_all(todos)
    /\ count_all(todos) <= MAX_TODOS_PER_USER

C18_Witness ==
    \E t, u \in Tasks :
        /\ tasks[t].pc = "constructed"
        /\ tasks[t].count = MAX_TODOS_PER_USER - 1
        /\ tasks[u].pc = "ready"

====
